---------------------------- MODULE Spec2Model ----------------------------
(***************************************************************************)
(* Model of the time MCP server (src/src/index.ts).                        *)
(*                                                                         *)
(* Text values (JavaScript strings) are sequences of fragments whose       *)
(* concatenation is the string.  Every character of a timestamp is a       *)
(* fragment of its own, so Len of a timestamp counts its characters; the   *)
(* literal pieces of a message and an echoed identifier are one fragment   *)
(* each.                                                                   *)
(***************************************************************************)
EXTENDS Integers, Sequences, FiniteSets

VARIABLES
    pc,         \* main(): the statement to execute next
    handlers,   \* request methods with a handler registered on the server
    connected,  \* server.connect(transport) has resolved
    stderr,     \* diagnostics written with console.error
    stdout,     \* what this program's own statements wrote to the protocol stream
    exitCode,   \* {} while the process runs, {c} after process.exit(c)
    hourCycle,  \* hour cycle the runtime resolves for en-US with hour12: false
    clock,      \* index in Instants of the instant new Date() returns now
    reqs        \* requests delivered so far, in order of arrival

vars == <<pc, handlers, connected, stderr, stdout, exitCode, hourCycle, clock, reqs>>

\* Requests delivered in one run of the model.
MaxRequests == 2

----------------------------------------------------------------------------
(* JavaScript values that a JSON arguments object can carry *)

Undefined == [t |-> "undefined"]
Null == [t |-> "null"]
Str(s) == [t |-> "string", s |-> s]
Num(n) == [t |-> "number", n |-> n]
Bool(b) == [t |-> "boolean", b |-> b]
Obj == [t |-> "object"]
Arr(a) == [t |-> "array", a |-> a]

Digit(n) == <<"0", "1", "2", "3", "4", "5", "6", "7", "8", "9">>[n + 1]

\* Variant: the guard written `timezone === undefined`.
Truthy_NotUndefined(v) == v.t # "undefined"

\* ToBoolean: what `!timezone` tests.
Truthy(v) ==
    CASE v.t = "undefined" -> FALSE
      [] v.t = "null" -> FALSE
      [] v.t = "string" -> v.s # ""
      [] v.t = "number" -> v.n # 0
      [] v.t = "boolean" -> v.b
      [] OTHER -> TRUE

\* ToString, as applied by the timeZone option and by a template literal.
\* Numbers are the one-digit naturals, arrays hold at most one string.
ToString(v) ==
    CASE v.t = "undefined" -> "undefined"
      [] v.t = "null" -> "null"
      [] v.t = "string" -> v.s
      [] v.t = "number" -> Digit(v.n)
      [] v.t = "boolean" -> (IF v.b THEN "true" ELSE "false")
      [] v.t = "array" -> (IF Len(v.a) = 0 THEN "" ELSE v.a[1])
      [] OTHER -> "[object Object]"

----------------------------------------------------------------------------
(* The clock and the time zone database *)

\* An instant is a day number since 1970-01-01 and a millisecond of that UTC day.
\* The instants the clock passes through: 2025-01-01T00:00:00.005Z and
\* 2025-10-22T21:09:31.654Z.
Instants ==
    << [day |-> 20089, ms |-> 5],
       [day |-> 20383, ms |-> 76171654] >>

ZoneNames == {"UTC", "Asia/Kolkata", "America/New_York"}

IsValidTimeZone(s) == s \in ZoneNames

\* Minutes east of UTC in effect at the instant (2025 rules for New York:
\* daylight time from 2025-03-09T07:00Z until 2025-11-02T06:00Z).
OffsetMinutes(zone, inst) ==
    CASE zone = "Asia/Kolkata" -> 330
      [] zone = "America/New_York" ->
            (IF /\ (inst.day > 20156 \/ (inst.day = 20156 /\ inst.ms >= 25200000))
                /\ (inst.day < 20394 \/ (inst.day = 20394 /\ inst.ms < 21600000))
             THEN -240 ELSE -300)
      [] OTHER -> 0

\* The element of a one-element set; binding a name as the element of a set
\* has its value computed once.
The(S) == CHOOSE x \in S : TRUE

FloorDiv(a, b) == IF a >= 0 THEN a \div b ELSE -((-a + b - 1) \div b)

\* Month and day of the day-of-year doy counted from 1 March; y0 is the year
\* that March falls in.
DateOfDoy(y0, doy) ==
    LET mp == (5 * doy + 2) \div 153
        d == doy - (153 * mp + 2) \div 5 + 1
        m == IF mp < 10 THEN mp + 3 ELSE mp - 9
    IN  [year |-> y0 + (IF m <= 2 THEN 1 ELSE 0), month |-> m, day |-> d]

\* Civil date of a day number (proleptic Gregorian calendar).
CivilFromDays(days) ==
    The({ The({ The({ DateOfDoy(yoe + (z \div 146097) * 400, doy) :
                      doy \in {doe - (365 * yoe + yoe \div 4 - yoe \div 100)} }) :
                yoe \in {(doe - doe \div 1460 + doe \div 36524 - doe \div 146096) \div 365} }) :
          z \in {days + 719468}, doe \in {(days + 719468) % 146097} })

\* Date-time fields an observer at the given offset reads at the instant.
Fields(inst, offset) ==
    LET local == inst.ms + offset * 60000
        carry == FloorDiv(local, 86400000)
        ms == local - carry * 86400000
    IN  The({ [year |-> date.year, month |-> date.month, day |-> date.day,
               hour |-> ms \div 3600000, minute |-> (ms \div 60000) % 60,
               second |-> (ms \div 1000) % 60, milli |-> ms % 1000] :
              date \in {CivilFromDays(inst.day + carry)} })

Pad2(n) == <<Digit((n \div 10) % 10), Digit(n % 10)>>
Pad3(n) == <<Digit((n \div 100) % 10)>> \o Pad2(n)
Pad4(n) == <<Digit((n \div 1000) % 10)>> \o Pad3(n)

----------------------------------------------------------------------------
(* src/src/index.ts *)

GET_CURRENT_TIME_TOOL ==
    [name |-> "getCurrentTime",
     description |-> "Returns the current date and time in ISO 8601 format. Optionally accepts a timezone parameter to return the time in a specific timezone (e.g., 'America/New_York', 'Europe/London', 'Asia/Tokyo').",
     inputSchema |->
        [type |-> "object",
         properties |->
            [timezone |->
                [type |-> "string",
                 description |-> "Optional IANA timezone identifier (e.g., 'America/New_York', 'Europe/London', 'UTC'). If not provided, returns time in UTC."]]]]

\* Date.prototype.toISOString: the UTC fields, then the designator Z.
ToISOString(inst) ==
    The({ Pad4(f.year) \o <<"-">> \o Pad2(f.month) \o <<"-">> \o Pad2(f.day) \o <<"T">>
          \o Pad2(f.hour) \o <<":">> \o Pad2(f.minute) \o <<":">> \o Pad2(f.second)
          \o <<".">> \o Pad3(f.milli) \o <<"Z">> : f \in {Fields(inst, 0)} })

\* formatter.formatToParts(now) collected in partsMap: the parts the template
\* reads.  With the h24 cycle the hour of midnight is written 24.
PartsMap(zone, inst, hc) ==
    The({ [year |-> Pad4(f.year), month |-> Pad2(f.month), day |-> Pad2(f.day),
           hour |-> Pad2(IF hc = "h24" /\ f.hour = 0 THEN 24 ELSE f.hour),
           minute |-> Pad2(f.minute), second |-> Pad2(f.second),
           fractionalSecond |-> Pad3(f.milli)] :
          f \in {Fields(inst, OffsetMinutes(zone, inst))} })

\* Variant: the template ends with the UTC designator.
IsoString_WithZ(partsMap) ==
    The({ p.year \o <<"-">> \o p.month \o <<"-">> \o p.day \o <<"T">>
          \o p.hour \o <<":">> \o p.minute \o <<":">> \o p.second
          \o <<".">> \o p.fractionalSecond \o <<"Z">> : p \in {partsMap} })

\* The template literal of line 74.
IsoString(partsMap) ==
    The({ p.year \o <<"-">> \o p.month \o <<"-">> \o p.day \o <<"T">>
          \o p.hour \o <<":">> \o p.minute \o <<":">> \o p.second
          \o <<".">> \o p.fractionalSecond : p \in {partsMap} })

InvalidTimezoneMessage(timezone) ==
    <<"Invalid timezone: ", ToString(timezone),
      ". Please provide a valid IANA timezone identifier (e.g., 'America/New_York', 'Europe/London', 'UTC').">>

\* getCurrentTime(timezone) called at instant inst on a runtime with hour
\* cycle hc: [ok |-> TRUE, value |-> the string returned] or
\* [ok |-> FALSE, message |-> the message of the Error thrown].
GetCurrentTimeAt(timezone, inst, hc) ==
    IF ~Truthy(timezone)
    THEN [ok |-> TRUE, value |-> ToISOString(inst)]
    ELSE IF IsValidTimeZone(ToString(timezone))
         THEN [ok |-> TRUE, value |-> IsoString(PartsMap(ToString(timezone), inst, hc))]
         ELSE [ok |-> FALSE, message |-> InvalidTimezoneMessage(timezone)]

\* Variant: a module-level call counter leaks into the string returned.
getCurrentTime_Counter(timezone) ==
    LET r == GetCurrentTimeAt(timezone, Instants[clock], hourCycle)
        count == Cardinality({i \in 1..Len(reqs) : reqs[i].settled # <<>>})
    IN  IF r.ok THEN [ok |-> TRUE, value |-> r.value \o <<Digit(count % 10)>>] ELSE r

\* const now = new Date()
getCurrentTime(timezone) == GetCurrentTimeAt(timezone, Instants[clock], hourCycle)

\* args?.timezone
TimezoneOf(args) == IF args.t = "undefined" THEN Undefined ELSE args.timezone

\* Variant: the handler returns an empty catalog.
ListToolsHandler_Empty == [kind |-> "return", result |-> [tools |-> <<>>]]

\* The tools/list handler: what the async function returns.
ListToolsHandler == [kind |-> "return", result |-> [tools |-> <<GET_CURRENT_TIME_TOOL>>]]

\* Variant: no try/catch around the call of getCurrentTime.
CallToolHandler_NoCatch(request) ==
    LET name == request.params.name
        args == request.params.arguments
    IN  IF name # "getCurrentTime"
        THEN [kind |-> "throw", message |-> <<"Unknown tool: ", name>>]
        ELSE LET currentTime == getCurrentTime(TimezoneOf(args))
             IN  IF currentTime.ok
                 THEN [kind |-> "return",
                       result |-> [content |-> <<[type |-> "text", text |-> currentTime.value]>>]]
                 ELSE [kind |-> "throw", message |-> currentTime.message]

\* Variant: isError: true on the success result as well.
CallToolHandler_ErrorOnSuccess(request) ==
    LET name == request.params.name
        args == request.params.arguments
    IN  IF name # "getCurrentTime"
        THEN [kind |-> "throw", message |-> <<"Unknown tool: ", name>>]
        ELSE LET currentTime == getCurrentTime(TimezoneOf(args))
             IN  [kind |-> "return",
                  result |-> [content |-> <<[type |-> "text",
                                             text |-> IF currentTime.ok
                                                      THEN currentTime.value
                                                      ELSE <<"Error: ">> \o currentTime.message]>>,
                              isError |-> TRUE]]

\* The tools/call handler: [kind |-> "return", result |-> r] when the async
\* function returns r, [kind |-> "throw", message |-> m] when an Error with
\* message m leaves it.  The success result carries no isError property.
CallToolHandler(request) ==
    LET name == request.params.name
        args == request.params.arguments
    IN  IF name # "getCurrentTime"
        THEN [kind |-> "throw", message |-> <<"Unknown tool: ", name>>]
        ELSE LET currentTime == getCurrentTime(TimezoneOf(args))
             IN  IF currentTime.ok
                 THEN [kind |-> "return",
                       result |-> [content |-> <<[type |-> "text", text |-> currentTime.value]>>]]
                 ELSE [kind |-> "return",
                       result |-> [content |-> <<[type |-> "text",
                                                  text |-> <<"Error: ">> \o currentTime.message]>>,
                                   isError |-> TRUE]]

\* The handler the server runs for a request.
HandlerOutcome(request) ==
    IF request.method = "tools/list" THEN ListToolsHandler ELSE CallToolHandler(request)

----------------------------------------------------------------------------
(* main() and the process *)

\* The statements of main() in program order.
MainOrder ==
    <<"newServer", "setListToolsHandler", "setCallToolHandler", "newTransport",
      "connect", "logRunning">>

\* The statement after stmt, "resolved" after the last one.
After(stmt) ==
    LET i == CHOOSE k \in 1..Len(MainOrder) : MainOrder[k] = stmt
    IN  IF i < Len(MainOrder) THEN MainOrder[i + 1] ELSE "resolved"

\* Variant: console.log(text), which writes to the protocol stream.
ConsoleLog(text) == stdout' = Append(stdout, text) /\ UNCHANGED stderr

\* console.error(text)
ConsoleError(text) == stderr' = Append(stderr, text) /\ UNCHANGED stdout

HourCycles == {"h23", "h24"}

Init ==
    /\ pc = MainOrder[1]
    /\ handlers = {}
    /\ connected = FALSE
    /\ stderr = <<>>
    /\ stdout = <<>>
    /\ exitCode = {}
    /\ hourCycle \in HourCycles
    /\ clock = 1
    /\ reqs = <<>>

\* const server = new Server(...)
NewServer ==
    /\ pc = "newServer"
    /\ pc' = After("newServer")
    /\ UNCHANGED <<handlers, connected, stderr, stdout, exitCode, hourCycle, clock, reqs>>

\* server.setRequestHandler(ListToolsRequestSchema, ...)
SetListToolsHandler ==
    /\ pc = "setListToolsHandler"
    /\ handlers' = handlers \cup {"tools/list"}
    /\ pc' = After("setListToolsHandler")
    /\ UNCHANGED <<connected, stderr, stdout, exitCode, hourCycle, clock, reqs>>

\* server.setRequestHandler(CallToolRequestSchema, ...)
SetCallToolHandler ==
    /\ pc = "setCallToolHandler"
    /\ handlers' = handlers \cup {"tools/call"}
    /\ pc' = After("setCallToolHandler")
    /\ UNCHANGED <<connected, stderr, stdout, exitCode, hourCycle, clock, reqs>>

\* const transport = new StdioServerTransport()
NewTransport ==
    /\ pc = "newTransport"
    /\ pc' = After("newTransport")
    /\ UNCHANGED <<handlers, connected, stderr, stdout, exitCode, hourCycle, clock, reqs>>

\* await server.connect(transport) resolves
ConnectOk ==
    /\ pc = "connect"
    /\ connected' = TRUE
    /\ pc' = After("connect")
    /\ UNCHANGED <<handlers, stderr, stdout, exitCode, hourCycle, clock, reqs>>

\* await server.connect(transport) rejects: main() rejects with the error
ConnectFail ==
    /\ pc = "connect"
    /\ pc' = "catch"
    /\ UNCHANGED <<handlers, connected, stderr, stdout, exitCode, hourCycle, clock, reqs>>

\* console.error("Time MCP Server running on stdio")
LogRunning ==
    /\ pc = "logRunning"
    /\ ConsoleError("Time MCP Server running on stdio")
    /\ pc' = After("logRunning")
    /\ UNCHANGED <<handlers, connected, exitCode, hourCycle, clock, reqs>>

\* main().catch: console.error("Fatal error in main():", error)
LogFatal ==
    /\ pc = "catch"
    /\ ConsoleError("Fatal error in main():")
    /\ pc' = "exit"
    /\ UNCHANGED <<handlers, connected, exitCode, hourCycle, clock, reqs>>

\* main().catch: process.exit(1)
Exit ==
    /\ pc = "exit"
    /\ exitCode' = {1}
    /\ pc' = "exited"
    /\ UNCHANGED <<handlers, connected, stderr, stdout, hourCycle, clock, reqs>>

----------------------------------------------------------------------------
(* Requests *)

\* Values of the timezone property of the arguments of a call.
TimezoneValues ==
    {Undefined, Str(""), Str("UTC"), Str("Asia/Kolkata"), Str("America/New_York"),
     Str("Invalid/Zone"), Null, Num(0), Num(5), Bool(TRUE), Obj, Arr(<<"UTC">>)}

Arguments(timezone) == [t |-> "object", timezone |-> timezone]

CallRequest(name, args) ==
    [method |-> "tools/call", params |-> [name |-> name, arguments |-> args]]

Requests ==
    {[method |-> "tools/list"]}
    \cup {CallRequest("getCurrentTime", Arguments(v)) : v \in TimezoneValues}
    \cup {CallRequest("getCurrentTime", Undefined)}
    \cup {CallRequest("nonexistentTool", a) :
            a \in {Arguments(Undefined), Arguments(Str("Invalid/Zone"))}}

Pending(i) == i \in 1..Len(reqs) /\ reqs[i].settled = <<>>
Settled(i) == i \in 1..Len(reqs) /\ reqs[i].settled # <<>>
NumSettled == Cardinality({i \in 1..Len(reqs) : reqs[i].settled # <<>>})

\* The host clock moves on.
Tick ==
    /\ clock < Len(Instants)
    /\ exitCode = {}
    /\ clock' = clock + 1
    /\ UNCHANGED <<pc, handlers, connected, stderr, stdout, exitCode, hourCycle, reqs>>

\* The transport delivers a request to the connected server.
Receive(request) ==
    /\ connected
    /\ exitCode = {}
    /\ Len(reqs) < MaxRequests
    /\ reqs' = Append(reqs, [request |-> request, settled |-> <<>>, now |-> 0])
    /\ UNCHANGED <<pc, handlers, connected, stderr, stdout, exitCode, hourCycle, clock>>

\* Variant: a request is served only once a later request has arrived.
Handle_AwaitsNext(i) ==
    /\ Pending(i)
    /\ exitCode = {}
    /\ Len(reqs) > i
    /\ reqs[i].request.method \in handlers
    /\ reqs' = [reqs EXCEPT ![i].settled = <<HandlerOutcome(reqs[i].request)>>,
                            ![i].now = clock]
    /\ UNCHANGED <<pc, handlers, connected, stderr, stdout, exitCode, hourCycle, clock>>

\* The server runs the handler registered for the request's method; the
\* handler has no await, so it runs to its return or throw in one step.
\* now records the instant the handler ran at.
Handle(i) ==
    /\ Pending(i)
    /\ exitCode = {}
    /\ reqs[i].request.method \in handlers
    /\ reqs' = [reqs EXCEPT ![i].settled = <<HandlerOutcome(reqs[i].request)>>,
                            ![i].now = clock]
    /\ UNCHANGED <<pc, handlers, connected, stderr, stdout, exitCode, hourCycle, clock>>

Next ==
    \/ NewServer
    \/ SetListToolsHandler
    \/ SetCallToolHandler
    \/ NewTransport
    \/ ConnectOk
    \/ ConnectFail
    \/ LogRunning
    \/ LogFatal
    \/ Exit
    \/ Tick
    \/ \E request \in Requests : Receive(request)
    \/ \E i \in 1..MaxRequests : Handle(i)

Spec == Init /\ [][Next]_vars

\* One request for each path through the handlers: the list, a call that
\* succeeds, a call whose time zone is rejected, a call of an unknown tool.
PathRequests ==
    {[method |-> "tools/list"],
     CallRequest("getCurrentTime", Arguments(Undefined)),
     CallRequest("getCurrentTime", Arguments(Str("Invalid/Zone"))),
     CallRequest("nonexistentTool", Arguments(Undefined))}

FairNext ==
    \/ NewServer
    \/ SetListToolsHandler
    \/ SetCallToolHandler
    \/ NewTransport
    \/ ConnectOk
    \/ ConnectFail
    \/ LogRunning
    \/ LogFatal
    \/ Exit
    \/ Tick
    \/ \E request \in PathRequests : Receive(request)
    \/ \E i \in 1..MaxRequests : Handle(i)

\* The event loop runs every handler it has been handed a request for, and
\* the statements of the catch callback run one after the other.
FairSpec ==
    /\ Init
    /\ [][FairNext]_vars
    /\ \A i \in 1..MaxRequests : WF_vars(Handle(i))
    /\ WF_vars(LogFatal)
    /\ WF_vars(Exit)

----------------------------------------------------------------------------
(* Reading the requests served *)

SettledRequests == {i \in 1..Len(reqs) : reqs[i].settled # <<>>}

Outcome(i) == reqs[i].settled[1]

IsCallOf(i, name) ==
    /\ reqs[i].request.method = "tools/call"
    /\ reqs[i].request.params.name = name

IsUnknownCall(i) ==
    /\ reqs[i].request.method = "tools/call"
    /\ reqs[i].request.params.name # "getCurrentTime"

TimezoneArg(i) == TimezoneOf(reqs[i].request.params.arguments)

\* isError of a call result; the property is optional and reads as false
\* when the handler leaves it out.
IsErrorOf(result) == IF "isError" \in DOMAIN result THEN result.isError ELSE FALSE

\* A call result: content items of kind text.
IsToolResponse(o) ==
    /\ o.kind = "return"
    /\ "content" \in DOMAIN o.result
    /\ \A k \in 1..Len(o.result.content) : o.result.content[k].type = "text"
    /\ IsErrorOf(o.result) \in BOOLEAN

\* The call returned exactly one text item; its text.
HasOneText(o) ==
    /\ IsToolResponse(o)
    /\ Len(o.result.content) = 1

TextOf(o) == o.result.content[1].text

Digits == {"0", "1", "2", "3", "4", "5", "6", "7", "8", "9"}

\* YYYY-MM-DDTHH:mm:ss.mmm, 23 characters
MatchesLocalPattern(text) ==
    /\ Len(text) = 23
    /\ \A k \in 1..23 :
          CASE k \in {5, 8} -> text[k] = "-"
            [] k = 11 -> text[k] = "T"
            [] k \in {14, 17} -> text[k] = ":"
            [] k = 20 -> text[k] = "."
            [] OTHER -> text[k] \in Digits

\* YYYY-MM-DDTHH:mm:ss.mmmZ
MatchesUtcPattern(text) ==
    /\ Len(text) = 24
    /\ MatchesLocalPattern(SubSeq(text, 1, 23))
    /\ text[24] = "Z"

\* The JSON values that are not strings and that JavaScript counts as false.
IsFalsyJson(v) ==
    \/ v.t = "null"
    \/ (v.t = "number" /\ v.n = 0)
    \/ (v.t = "boolean" /\ v.b = FALSE)

BeginsWith(text, prefix) ==
    /\ Len(text) >= Len(prefix)
    /\ SubSeq(text, 1, Len(prefix)) = prefix

----------------------------------------------------------------------------
(* Claims *)

\* C1: every call request served, whatever its tool name and arguments, has
\* produced exactly one response, and that response is a well-formed call
\* result (text content items and an isError flag); no failure leaves the
\* handler as a thrown error.
C1_ExactlyOneToolResponse ==
    \A i \in SettledRequests :
        reqs[i].request.method = "tools/call" =>
            /\ Len(reqs[i].settled) = 1
            /\ IsToolResponse(Outcome(i))

\* C2: a getCurrentTime call whose timezone is a non-empty string that is not
\* a recognised zone returns a result with isError = true and exactly one
\* text item, whose text begins "Error: Invalid timezone: <identifier>".
C2_InvalidTimezoneIsReported ==
    \A i \in SettledRequests :
        (/\ IsCallOf(i, "getCurrentTime")
         /\ TimezoneArg(i).t = "string"
         /\ TimezoneArg(i).s # ""
         /\ ~IsValidTimeZone(TimezoneArg(i).s)) =>
            /\ HasOneText(Outcome(i))
            /\ "isError" \in DOMAIN Outcome(i).result
            /\ Outcome(i).result.isError = TRUE
            /\ BeginsWith(TextOf(Outcome(i)),
                          <<"Error: ", "Invalid timezone: ", TimezoneArg(i).s>>)

C2_Witness ==
    \E i \in SettledRequests :
        /\ IsCallOf(i, "getCurrentTime")
        /\ TimezoneArg(i) = Str("Invalid/Zone")
        /\ Outcome(i).kind = "return"

\* C3: a call naming a tool that is not registered returns an error result
\* in the format of the other errors (isError = true and one text item that
\* names the unknown tool); no error is thrown out of the handler.
C3_UnknownToolIsReported ==
    \A i \in SettledRequests :
        IsUnknownCall(i) =>
            /\ HasOneText(Outcome(i))
            /\ IsErrorOf(Outcome(i).result) = TRUE
            /\ \E k \in 1..Len(TextOf(Outcome(i))) :
                   TextOf(Outcome(i))[k] = reqs[i].request.params.name

\* C4: every request delivered, a call of a nonexistent tool included, is
\* eventually completed with a result or a thrown error, and while it is
\* pending its handler can run whether or not another request arrives.
C4_EveryRequestCompletes ==
    /\ \A i \in 1..MaxRequests :
          Pending(i) ~> (Settled(i) /\ Outcome(i).kind \in {"return", "throw"})
    /\ [](\A i \in 1..MaxRequests : Pending(i) => ENABLED Handle(i))

C4_Witness ==
    \E i, j \in 1..Len(reqs) :
        /\ Settled(i)
        /\ IsUnknownCall(i)
        /\ Outcome(i).kind = "throw"
        /\ j < i
        /\ Pending(j)

\* C5: every list request served, after any requests before it, returned
\* exactly one descriptor, the one named "getCurrentTime", and never failed;
\* serving a list request changes nothing but that request's own completion.
C5_ListToolsIsTheCatalog ==
    /\ [](\A i \in SettledRequests :
             reqs[i].request.method = "tools/list" =>
                /\ Outcome(i).kind = "return"
                /\ Len(Outcome(i).result.tools) = 1
                /\ Outcome(i).result.tools[1].name = "getCurrentTime"
                /\ Outcome(i).result.tools = <<GET_CURRENT_TIME_TOOL>>)
    /\ [][\A i \in 1..Len(reqs) :
             (/\ reqs[i].request.method = "tools/list"
              /\ reqs[i].settled = <<>>
              /\ reqs'[i].settled # <<>>) =>
                /\ UNCHANGED <<pc, handlers, connected, stderr, stdout, exitCode,
                               hourCycle, clock>>
                /\ Len(reqs') = Len(reqs)
                /\ \A j \in 1..Len(reqs) : j # i => reqs'[j] = reqs[j]]_vars

C5_Witness ==
    \E i, j \in SettledRequests :
        /\ j < i
        /\ reqs[i].request.method = "tools/list"
        /\ IsUnknownCall(j)
        /\ Outcome(i).kind = "return"

\* C6: getCurrentTime chooses the form of its result by the timezone alone:
\* absent or the empty string gives the UTC form ending in "Z"; a valid
\* identifier, "UTC" included, gives the 23-character form
\* YYYY-MM-DDTHH:mm:ss.mmm with no "Z" and no offset.
C6_FormFollowsTimezone ==
    \A i \in SettledRequests :
        IsCallOf(i, "getCurrentTime") =>
            /\ (TimezoneArg(i).t = "undefined" \/ TimezoneArg(i) = Str("")) =>
                  /\ HasOneText(Outcome(i))
                  /\ MatchesUtcPattern(TextOf(Outcome(i)))
            /\ (TimezoneArg(i).t = "string" /\ IsValidTimeZone(TimezoneArg(i).s)) =>
                  /\ HasOneText(Outcome(i))
                  /\ MatchesLocalPattern(TextOf(Outcome(i)))

C6_Witness ==
    \E i, j \in SettledRequests :
        /\ IsCallOf(i, "getCurrentTime")
        /\ TimezoneArg(i) = Str("UTC")
        /\ Len(TextOf(Outcome(i))) = 23
        /\ IsCallOf(j, "getCurrentTime")
        /\ TimezoneArg(j) = Str("")
        /\ Len(TextOf(Outcome(j))) = 24

\* C7: a getCurrentTime call always returns one text item; when
\* getCurrentTime succeeded the result is not an error and the text is
\* exactly the string it returned, and the result is an error exactly when
\* getCurrentTime failed.
C7_SuccessWrapsTheString ==
    \A i \in SettledRequests :
        IsCallOf(i, "getCurrentTime") =>
            LET r == GetCurrentTimeAt(TimezoneArg(i), Instants[reqs[i].now], hourCycle)
            IN  /\ HasOneText(Outcome(i))
                /\ r.ok => /\ IsErrorOf(Outcome(i).result) = FALSE
                           /\ TextOf(Outcome(i)) = r.value
                /\ IsErrorOf(Outcome(i).result) <=> ~r.ok

C7_Witness ==
    \E i \in SettledRequests :
        /\ IsCallOf(i, "getCurrentTime")
        /\ TimezoneArg(i) = Str("Asia/Kolkata")
        /\ IsErrorOf(Outcome(i).result) = FALSE
        /\ Len(Outcome(i).result.content) = 1

C9_StartupAndFatalExit ==
    /\ [](/\ connected => handlers = {"tools/list", "tools/call"}
          /\ Len(reqs) > 0 => connected
          /\ stdout = <<>>
          /\ pc = "resolved" => stderr = <<"Time MCP Server running on stdio">>
          /\ exitCode # {} =>
                /\ exitCode = {1}
                /\ ~connected
                /\ stderr = <<"Fatal error in main():">>)
    /\ (pc = "catch") ~> (exitCode = {1})

C9_Witness ==
    /\ pc = "exited"
    /\ exitCode = {1}
    /\ stderr # <<>>

============================================================================
